---------------------------- MODULE Spec2Model ----------------------------
(***************************************************************************)
(* A model of mcumgr-client's transfer engine:                             *)
(*   - the sequence allocator        (src/src/transfer.rs, next_seq_id)    *)
(*   - the frame codec               (encode_request, decode of transceive)*)
(*   - the chunked upload            (src/src/image.rs, upload)            *)
(***************************************************************************)
EXTENDS Integers, Sequences, FiniteSets, TLC

(***************************************************************************)
(* Bounds of the model.                                                    *)
(***************************************************************************)
\* allocations followed in the allocator's specifications
MaxCalls == 258
\* concurrent callers of next_seq_id in SpecSeqConc
NumCallers == 2
\* write requests followed in one upload
MaxRequests == 3
\* usize is modelled UsizeBits wide (the arithmetic of upload wraps or panics at
\* 2^UsizeBits as the program's does at 2^64), so that TLC can compute with it;
\* wider than the u16 of the frame's length fields
UsizeBits == 17

(***************************************************************************)
(* Program constants.                                                      *)
(***************************************************************************)
\* AtomicU8: the counter is one byte
U8Bits == 8
\* NmpHdr is 8 bytes on the wire (the body starts at data[8..])
NmpHdrLen == 8
\* the big-endian u16 length prefix, and the big-endian u16 CRC
LenPrefixLen == 2
CrcLen == 2
\* Sha256::digest is 32 bytes
Sha256Len == 32

U8Mod == 2 ^ U8Bits


UsizeMod == 2 ^ UsizeBits

VARIABLES
    COUNTER,        \* the AtomicU8 behind lazy_static COUNTER
    lazy_done,      \* whether lazy_static has run COUNTER's initializer
    rng_u8,         \* the byte thread_rng().gen::<u8>() yields in this process
    caller_pc,      \* per caller of next_seq_id: "idle" or "fetch"
    ids,            \* the values next_seq_id returned, in the order of the fetch_adds
    cli,            \* the configuration record: mtu, linelength, slot
    build,          \* how the binary was built and run: overflow_checks, log_info
    data_len,       \* data.len(): the image is the bytes data[0 .. data_len]
    off,            \* upload: the send offset
    off_start,      \* upload: off at the start of the current chunk
    try_length,     \* upload: the attempted chunk length
    seq_id,         \* upload: the sequence id of the current chunk
    pc,             \* upload: where the call is
    err,            \* upload: the error it returned, or the panic it died of
    req,            \* upload: the request last built
    nsent,          \* upload: the requests written to the port so far
    sent,           \* upload: the requests written to the port, in order
    resp,           \* upload: what transceive read back for the last request
    codec_pc,       \* codec: where the exchange is
    enc_in,         \* codec: the arguments of encode_request
    enc_out,        \* codec: what encode_request returned: data and request_header
    tamper,         \* codec: how the line read came about
    result,         \* codec: the bytes transceive read between the marker and the newline
    dec_out         \* codec: what the decode half of transceive made of them

seq_vars == <<COUNTER, lazy_done, rng_u8, caller_pc, ids>>

up_vars ==
    <<cli, build, data_len, off, off_start, try_length, seq_id, pc, err, req, nsent, sent, resp>>

codec_vars == <<codec_pc, enc_in, enc_out, tamper, result, dec_out>>

vars == <<seq_vars, up_vars, codec_vars>>

Callers == 1 .. NumCallers

Min(a, b) == IF a < b THEN a ELSE b

(***************************************************************************)
(* next_seq_id                                                             *)
(***************************************************************************)
\* thread_rng().gen::<u8>(): any byte
SeedValues == 0 .. (U8Mod - 1)

\* a counter that saturates instead of wrapping (mutant of WrappingAdd1)
WrappingAdd1_Saturate(c) == IF c = U8Mod - 1 THEN c ELSE c + 1

\* AtomicU8::fetch_add(1): the stored value wraps around on overflow
WrappingAdd1(c) == (c + 1) % U8Mod

\* the value COUNTER holds once it is dereferenced: the first deref runs the
\* initializer (lazy_static runs it once)
LazyValue == IF lazy_done THEN COUNTER ELSE rng_u8

\* lazy_static's deref of COUNTER
LazyDeref(t) ==
    /\ caller_pc[t] = "idle"
    /\ Len(ids) < MaxCalls
    /\ COUNTER' = LazyValue
    /\ lazy_done' = TRUE
    /\ caller_pc' = [caller_pc EXCEPT ![t] = "fetch"]
    /\ UNCHANGED <<rng_u8, ids>>
    /\ UNCHANGED <<up_vars, codec_vars>>

\* a load and a store in place of the atomic fetch_add: of two callers that both
\* loaded the counter, both return the value loaded and one increment is lost
\* (mutant of FetchAdd)
FetchAdd_Racy(t) ==
    /\ caller_pc[t] = "fetch"
    /\ ids' = Append(ids, COUNTER)
    /\ COUNTER' = IF \E u \in Callers \ {t} : caller_pc[u] = "fetch"
                   THEN COUNTER
                   ELSE WrappingAdd1(COUNTER)
    /\ caller_pc' = [caller_pc EXCEPT ![t] = "idle"]
    /\ UNCHANGED <<lazy_done, rng_u8>>
    /\ UNCHANGED <<up_vars, codec_vars>>

\* COUNTER.fetch_add(1, SeqCst): one atomic read-modify-write returning the old value
FetchAdd(t) ==
    /\ caller_pc[t] = "fetch"
    /\ ids' = Append(ids, COUNTER)
    /\ COUNTER' = WrappingAdd1(COUNTER)
    /\ caller_pc' = [caller_pc EXCEPT ![t] = "idle"]
    /\ UNCHANGED <<lazy_done, rng_u8>>
    /\ UNCHANGED <<up_vars, codec_vars>>

NoRequest == [kind |-> "none"]

NoError == [msg |-> "none", code |-> 0]

NoResponse == [kind |-> "none"]

\* the codec variables of a process that is not in an exchange of its own
CodecIdle ==
    /\ codec_pc = "idle"
    /\ enc_in = [kind |-> "none"]
    /\ enc_out = [kind |-> "none"]
    /\ tamper = "none"
    /\ result = <<>>
    /\ dec_out = [kind |-> "none"]

\* the upload variables of a process that is not uploading
UploadIdle ==
    /\ cli = [mtu |-> 0, linelength |-> 0, slot |-> 0]
    /\ build = [overflow_checks |-> FALSE, log_info |-> FALSE]
    /\ data_len = 0
    /\ off = 0
    /\ off_start = 0
    /\ try_length = 0
    /\ seq_id = 0
    /\ pc = "idle"
    /\ err = NoError
    /\ req = NoRequest
    /\ nsent = 0
    /\ sent = <<>>
    /\ resp = NoResponse

SeqInit ==
    /\ COUNTER = 0
    /\ lazy_done = FALSE
    /\ rng_u8 \in SeedValues
    /\ caller_pc = [t \in Callers |-> "idle"]
    /\ ids = <<>>
    /\ UploadIdle
    /\ CodecIdle

\* one caller, as in tests::test_next_seq_id
SeqNextSingle == LazyDeref(1) \/ FetchAdd(1)

SpecSeq == SeqInit /\ [][SeqNextSingle]_vars

\* several callers, any interleaving
SeqNextConc == \E t \in Callers : LazyDeref(t) \/ FetchAdd(t)

SpecSeqConc == SeqInit /\ [][SeqNextConc]_vars

(***************************************************************************)
(* C1: in a run of consecutive calls by one caller the value returned by   *)
(* call i+1 is the value of call i plus one modulo 256, so the latest      *)
(* value differs from each of the (up to) 255 values before it, and call   *)
(* number 257 returns what call number 1 returned.  Every prefix of ids is *)
(* the ids of a reachable state, so comparing the latest value with its    *)
(* predecessors in every state compares every pair.                        *)
(***************************************************************************)
C1_SingleCallerCycle ==
    LET n == Len(ids) IN
    /\ \A i \in 1 .. (n - 1) :
          (n - i < U8Mod) => ids[i] # ids[n]
    /\ \A i \in 1 .. n : ids[i] = (ids[1] + (i - 1)) % U8Mod
    /\ n > U8Mod => ids[U8Mod + 1] = ids[1]

C1_Witness ==
    /\ Len(ids) = U8Mod + 1
    /\ ids[1] = 200
    /\ ids[57] = 0
    /\ ids[U8Mod + 1] = 200
    /\ caller_pc[2] = "idle"

(***************************************************************************)
(* C2: with several callers interleaved, every fetch_add is atomic: in the *)
(* order the increments take effect no value repeats within 256            *)
(* consecutive allocations, and no increment is lost (the counter is the   *)
(* seed plus the number of completed allocations, modulo 256).             *)
(***************************************************************************)
C2_ConcurrentNoDuplicates ==
    LET n == Len(ids) IN
    /\ \A i \in 1 .. (n - 1) :
          (n - i < U8Mod) => ids[i] # ids[n]
    /\ n > 0 => COUNTER = (ids[1] + n) % U8Mod
    /\ lazy_done => COUNTER = (rng_u8 + n) % U8Mod

C2_Witness ==
    /\ Len(ids) = U8Mod
    /\ caller_pc[1] = "fetch"
    /\ caller_pc[2] = "fetch"
    /\ ids[1] = 255

(***************************************************************************)
(* Sizes of what upload builds.                                            *)
(***************************************************************************)
\* `x as u32`
AsU32(x) == ((x \div 65536) % 65536) * 65536 + (x % 65536)

\* `x as u16`
AsU16(x) == x % 65536

\* `x as usize` of an i128
AsUsize(x) == x % UsizeMod

\* the bytes serde_cbor writes for an unsigned integer or for the length of a
\* string: the value itself below 24, else 1, 2 or 4 bytes after the first
CborUIntLen(n) ==
    IF n < 24 THEN 1
    ELSE IF n < 256 THEN 2
    ELSE IF n < 65536 THEN 3
    ELSE 5

\* a text key of k characters
CborKeyLen(k) == CborUIntLen(k) + k

\* serde_cbor::to_vec(&req): the map of ImageUploadReq's fields that are set:
\* "image", "off", ("len", "sha",) "data"; upgrade is None and is skipped
CborBodyLen(r) ==
    1 + CborKeyLen(5) + CborUIntLen(r.image_num)
      + CborKeyLen(3) + CborUIntLen(r.off)
      + (IF r.has_len THEN CborKeyLen(3) + CborUIntLen(r.len) ELSE 0)
      + (IF r.has_sha THEN CborKeyLen(3) + CborUIntLen(Sha256Len) + Sha256Len ELSE 0)
      + CborKeyLen(4) + CborUIntLen(r.data_len) + r.data_len

\* general_purpose::STANDARD.encode: 4 characters for every 3 bytes, padded
Base64Len(n) == 4 * ((n + 2) \div 3)

\* the length of `data` after the line loop of encode_request has run from
\* `written` on: per line 2 marker bytes, write_len characters and a newline
RECURSIVE LinesLen(_, _, _)
LinesLen(written, totlen, linelength) ==
    IF written < totlen
      THEN LET write_len == Min(linelength - 4, totlen - written) IN
           2 + write_len + 1 + LinesLen(written + write_len, totlen, linelength)
      ELSE 0

\* `request_header.len = body.len() as u16`
HeaderLenField(body_len) == AsU16(body_len)

\* `len.write_u16::<BigEndian>(serialized.len() as u16)`, serialized being the
\* header, the body and the checksum
TotalLenField(body_len) == AsU16(NmpHdrLen + body_len + CrcLen)

\* the length of the frame encode_request returns for a body of body_len bytes
EncodedLen(linelength, body_len) ==
    LET serialized == NmpHdrLen + body_len + CrcLen + LenPrefixLen IN
    LinesLen(0, Base64Len(serialized), linelength)

(***************************************************************************)
(* upload                                                                  *)
(***************************************************************************)
\* the images, by length: the image is data[0 .. data_len]
DataLens == {0, 1, 3, 5, 8, 40, 300, 70000}

\* --mtu
MtuValues == {104, 106, 108, 110, 128, 512}

\* --linelength
LineLengths == {128}

\* a link that takes a frame of more than 2^16 bytes in a few long lines
WideLink == [mtu |-> 100000, linelength |-> 8192, slot |-> 0]

\* the configurations: --mtu, --linelength, --slot
Configs == [mtu : MtuValues, linelength : LineLengths, slot : {0}] \cup {WideLink}

\* the bytes the random generator may yield in an upload
UploadSeeds == {254}

Terminated == pc \in {"done", "failed", "panic"}

\* bail!(msg): upload returns Err
Fail(msg) ==
    /\ pc' = "failed"
    /\ err' = [msg |-> msg, code |-> 0]

\* bail!("rc = {}", rc)
FailCode(msg, code) ==
    /\ pc' = "failed"
    /\ err' = [msg |-> msg, code |-> code]

\* the thread panics: upload returns nothing
Panic(msg) ==
    /\ pc' = "panic"
    /\ err' = [msg |-> msg, code |-> 0]

UploadInit ==
    /\ COUNTER = 0
    /\ lazy_done = FALSE
    /\ rng_u8 \in UploadSeeds
    /\ caller_pc = [t \in Callers |-> "idle"]
    /\ ids = <<>>
    /\ cli \in Configs
    /\ build \in [overflow_checks : BOOLEAN, log_info : BOOLEAN]
    /\ data_len \in DataLens
    /\ off = 0
    /\ off_start = 0
    /\ try_length = 0
    /\ seq_id = 0
    /\ pc = "outer"
    /\ err = NoError
    /\ req = NoRequest
    /\ nsent = 0
    /\ sent = <<>>
    /\ resp = NoResponse
    /\ CodecIdle

\* an outer loop that allocates the sequence id on its first pass only (mutant
\* of OuterLoop)
OuterLoop_AllocOnce ==
    /\ pc = "outer"
    /\ off_start' = off
    /\ try_length' = cli.mtu
    /\ seq_id' = IF nsent = 0 THEN LazyValue ELSE seq_id
    /\ COUNTER' = IF nsent = 0 THEN WrappingAdd1(LazyValue) ELSE COUNTER
    /\ lazy_done' = TRUE
    /\ pc' = "build"
    /\ UNCHANGED <<rng_u8, caller_pc, ids>>
    /\ UNCHANGED codec_vars
    /\ UNCHANGED <<cli, build, data_len, off, err, req, nsent, sent, resp>>

\* the head of the outer loop: a new chunk, a new sequence id
OuterLoop ==
    /\ pc = "outer"
    /\ off_start' = off
    /\ try_length' = cli.mtu
    /\ seq_id' = LazyValue
    /\ COUNTER' = WrappingAdd1(LazyValue)
    /\ lazy_done' = TRUE
    /\ pc' = "build"
    /\ UNCHANGED <<rng_u8, caller_pc, ids>>
    /\ UNCHANGED codec_vars
    /\ UNCHANGED <<cli, build, data_len, off, err, req, nsent, sent, resp>>

\* a request that carries the image's length and digest on the first request of
\* the upload only (mutant of ImageUploadReq)
ImageUploadReq_MetadataOnce(tl) ==
    [kind |-> "req",
     image_num |-> cli.slot,
     off |-> AsU32(off),
     has_len |-> (off = 0 /\ nsent = 0),
     len |-> AsU32(data_len),
     has_sha |-> (off = 0 /\ nsent = 0),
     upgrade |-> FALSE,
     data_from |-> off,
     data_len |-> tl,
     seq |-> seq_id]

\* the request the inner loop builds for a chunk of tl bytes at off
ImageUploadReq(tl) ==
    [kind |-> "req",
     image_num |-> cli.slot,
     off |-> AsU32(off),
     has_len |-> (off = 0),
     len |-> AsU32(data_len),
     has_sha |-> (off = 0),
     upgrade |-> FALSE,
     data_from |-> off,
     data_len |-> tl,
     seq |-> seq_id]

\* a test that leaves the marker and the newline of a line out of the count
\* (mutant of TooLong)
TooLong_IgnoresFraming(chunk_len, mtu) == chunk_len - 3 > mtu

\* `if chunk.len() > cli.mtu`
TooLong(chunk_len, mtu) == chunk_len > mtu

\* `if reduce > try_length { bail!("MTU too small") }`
TooSmall(reduce, tl) == reduce > tl

\* `reduce * 3 / 4 + 3`
ShrinkBy(reduce) == (reduce * 3) \div 4 + 3

\* one pass of the inner loop, from the clamp of try_length to the frame that
\* fits, the shrink or the failure.  An arithmetic overflow panics in a build
\* with overflow checks and wraps in one without; a slice out of range panics.
\* req is the request of the frame built, whether it fits or not.
Build ==
    /\ pc = "build"
    /\ LET sum == off + try_length
           clamp == (sum % UsizeMod) > data_len
           tl == IF clamp THEN (data_len - off) % UsizeMod ELSE try_length
           end == off + tl
           r == ImageUploadReq(tl)
           body_len == CborBodyLen(r)
           chunk_len == EncodedLen(cli.linelength, body_len)
           reduce == chunk_len - cli.mtu
           built == [r EXCEPT !.kind = "req"]
                       @@ [frame_len |-> chunk_len,
                           body_len |-> body_len,
                           hdr_len |-> HeaderLenField(body_len),
                           total_len |-> TotalLenField(body_len)]
       IN
       IF build.overflow_checks /\ sum >= UsizeMod
         THEN Panic("attempt to add with overflow") /\ UNCHANGED <<try_length, req>>
       ELSE IF build.overflow_checks /\ clamp /\ data_len < off
         THEN Panic("attempt to subtract with overflow") /\ UNCHANGED <<try_length, req>>
       ELSE IF build.overflow_checks /\ end >= UsizeMod
         THEN Panic("attempt to add with overflow") /\ UNCHANGED <<try_length, req>>
       ELSE IF (off > end % UsizeMod) \/ (end % UsizeMod > data_len)
         THEN Panic("slice index out of range") /\ UNCHANGED <<try_length, req>>
       ELSE IF TooLong(chunk_len, cli.mtu)
         THEN IF TooSmall(reduce, tl)
                THEN Fail("MTU too small") /\ try_length' = tl /\ req' = built
              ELSE IF build.overflow_checks /\ ShrinkBy(reduce) > tl
                THEN Panic("attempt to subtract with overflow")
                     /\ try_length' = tl /\ req' = built
              ELSE /\ try_length' = (tl - ShrinkBy(reduce)) % UsizeMod
                   /\ req' = built
                   /\ UNCHANGED <<pc, err>>
       ELSE /\ try_length' = tl
            /\ req' = built
            /\ pc' = "send"
            /\ UNCHANGED err
    /\ UNCHANGED <<seq_vars, codec_vars>>
    /\ UNCHANGED <<cli, build, data_len, off, off_start, seq_id, nsent, sent, resp>>

\* transceive, up to the last byte of the request: the port opens, the stale
\* input is dropped and the frame is written, or one of these fails
SendRequest ==
    /\ pc = "send"
    /\ nsent < MaxRequests
    /\ \/ /\ nsent' = nsent + 1
          /\ sent' = Append(sent, req)
          /\ pc' = "await"
          /\ UNCHANGED err
       \/ /\ Fail("transceive")
          /\ UNCHANGED <<nsent, sent>>
    /\ UNCHANGED <<seq_vars, codec_vars>>
    /\ UNCHANGED <<cli, build, data_len, off, off_start, try_length, seq_id, req, resp>>

Absent == [t |-> "absent"]

\* a CBOR value that is not Value::Integer
NotInteger == [t |-> "other"]

Integer(v) == [t |-> "int", v |-> v]

\* the status codes a device answers with
RespRcValues == {0, 3}

\* the offsets a device answers with: none, before, at and after the chunk
\* sent, at and after the end of the image, and outside usize
RespOffValues ==
    {-1, 0, 1, off_start, off_start + req.data_len, off_start + req.data_len + 1,
     data_len, data_len + 1, UsizeMod + off_start}

\* a response body: a map with or without "rc" and "off", or not a map
RespBodies ==
    [t : {"map"},
     rc : {Absent, NotInteger} \cup {Integer(v) : v \in RespRcValues},
     off : {Absent, NotInteger} \cup {Integer(v) : v \in RespOffValues}]
    \cup {[t |-> "other"]}

\* what transceive returns: an error (a read that fails or times out, a wrong
\* marker, bad base64, a wrong length or checksum, a body that is not CBOR),
\* or the header and the body it decoded.  `to` is the request it came back
\* for and `n` the number of requests written by then
Responses ==
    [kind : {"err"}, to : {req}, n : {nsent}]
    \cup [kind : {"ok"},
          seq : {req.seq, WrappingAdd1(req.seq)},
          op : {"WriteRsp", "ReadRsp"},
          group : {"Image", "Default"},
          body : RespBodies,
          to : {req},
          n : {nsent}]

\* transceive, from the first byte read: what comes back from the device
DeviceRespond ==
    /\ pc = "await"
    /\ resp' \in Responses
    /\ pc' = "response"
    /\ UNCHANGED <<seq_vars, codec_vars>>
    /\ UNCHANGED <<cli, build, data_len, off, off_start, try_length, seq_id, err, req, nsent, sent>>

\* `response_header.seq != request_header.seq`
WrongSeq(r) == r.seq # req.seq

\* a check of the op alone (mutant of WrongTypes)
WrongTypes_OpOnly(r) == r.op # "WriteRsp"

\* `response_header.op != NmpOp::WriteRsp || response_header.group != NmpGroup::Image`
WrongTypes(r) == r.op # "WriteRsp" \/ r.group # "Image"

\* a status check that is skipped when the body reports an offset (mutant of RcError)
RcError_UnlessOffset(body) ==
    body.t = "map" /\ body.rc.t = "int" /\ body.rc.v # 0 /\ body.off.t # "int"

\* the key "rc" holds a non-zero Value::Integer
RcError(body) == body.t = "map" /\ body.rc.t = "int" /\ body.rc.v # 0

\* an offset that advances by the chunk written when the body reports none
\* (mutant of NewOff)
NewOff_AssumeAdvance(body) ==
    IF body.t = "map" /\ body.off.t = "int"
      THEN AsUsize(body.off.v)
      ELSE off + req.data_len

\* off after the loop over the body's keys: `off = *off_val as usize`
NewOff(body) ==
    IF body.t = "map" /\ body.off.t = "int" THEN AsUsize(body.off.v) ELSE off

\* a stall check that only catches a device going backwards (mutant of Stalled)
Stalled_OnlyBackwards(start, new) == new < start

\* `if off_start == off`
Stalled(start, new) == start = new

\* a completion test that also accepts an offset past the end (mutant of Complete)
Complete_AtLeast(o) == o >= data_len

\* `if off == data.len()`
Complete(o) == o = data_len

\* the rest of the outer loop's body, from the value transceive returned
HandleResponse ==
    /\ pc = "response"
    /\ req.kind = "req"
    /\ IF resp.kind = "err"
         THEN Fail("transceive") /\ UNCHANGED off
       ELSE IF WrongSeq(resp)
         THEN Fail("wrong sequence number") /\ UNCHANGED off
       ELSE IF WrongTypes(resp)
         THEN Fail("wrong response types") /\ UNCHANGED off
       ELSE IF RcError(resp.body)
         THEN FailCode("rc", resp.body.rc.v) /\ UNCHANGED off
       ELSE LET new == NewOff(resp.body) IN
            /\ off' = new
            /\ IF Stalled(off_start, new)
                 THEN Fail("wrong offset received")
               ELSE IF build.log_info /\ build.overflow_checks /\ 100 * new >= UsizeMod
                 THEN Panic("attempt to multiply with overflow")
               ELSE IF build.log_info /\ data_len = 0
                 THEN Panic("attempt to divide by zero")
               ELSE IF Complete(new)
                 THEN pc' = "done" /\ UNCHANGED err
               ELSE pc' = "outer" /\ UNCHANGED err
    /\ UNCHANGED <<seq_vars, codec_vars>>
    /\ UNCHANGED <<cli, build, data_len, off_start, try_length, seq_id, req, nsent, sent, resp>>

UploadNext == OuterLoop \/ Build \/ SendRequest \/ DeviceRespond \/ HandleResponse

SpecUpload == UploadInit /\ [][UploadNext]_vars

(***************************************************************************)
(* list                                                                    *)
(***************************************************************************)
\* serde_cbor::to_vec of the empty map: the byte A0
EmptyMapLen == 1

ListInit ==
    /\ COUNTER = 0
    /\ lazy_done = FALSE
    /\ rng_u8 \in UploadSeeds
    /\ caller_pc = [t \in Callers |-> "idle"]
    /\ ids = <<>>
    /\ cli \in Configs
    /\ build \in [overflow_checks : BOOLEAN, log_info : BOOLEAN]
    /\ data_len = 0
    /\ off = 0
    /\ off_start = 0
    /\ try_length = 0
    /\ seq_id = 0
    /\ pc = "list"
    /\ err = NoError
    /\ req = NoRequest
    /\ nsent = 0
    /\ sent = <<>>
    /\ resp = NoResponse
    /\ CodecIdle

\* list, up to the frame encode_request returns: a read request of the image
\* state with an empty map for body, under a new sequence id
ListRequest ==
    /\ pc = "list"
    /\ seq_id' = LazyValue
    /\ COUNTER' = WrappingAdd1(LazyValue)
    /\ lazy_done' = TRUE
    /\ req' = [kind |-> "list",
               op |-> "Read",
               group |-> "Image",
               id |-> "State",
               seq |-> LazyValue,
               data_from |-> 0,
               data_len |-> 0,
               body_len |-> EmptyMapLen,
               hdr_len |-> HeaderLenField(EmptyMapLen),
               total_len |-> TotalLenField(EmptyMapLen),
               frame_len |-> EncodedLen(cli.linelength, EmptyMapLen)]
    /\ pc' = "send"
    /\ UNCHANGED <<rng_u8, caller_pc, ids>>
    /\ UNCHANGED codec_vars
    /\ UNCHANGED <<cli, build, data_len, off, off_start, try_length, err, nsent, sent, resp>>

\* `response_header.op != NmpOp::ReadRsp || response_header.group != NmpGroup::Image`
ListWrongTypes(r) == r.op # "ReadRsp" \/ r.group # "Image"

\* the rest of list, from the value transceive returned
ListHandleResponse ==
    /\ pc = "response"
    /\ req.kind = "list"
    /\ IF resp.kind = "err"
         THEN Fail("transceive")
       ELSE IF WrongSeq(resp)
         THEN Fail("wrong sequence number")
       ELSE IF ListWrongTypes(resp)
         THEN Fail("wrong response types")
       ELSE pc' = "done" /\ UNCHANGED err
    /\ UNCHANGED <<seq_vars, codec_vars>>
    /\ UNCHANGED <<cli, build, data_len, off, off_start, try_length, seq_id, req, nsent, sent, resp>>

\* one command per process: upload or list
CommandsNext == UploadNext \/ ListRequest \/ ListHandleResponse

SpecCommands == (UploadInit \/ ListInit) /\ [][CommandsNext]_vars

(***************************************************************************)
(* What the claims about upload speak of.                                  *)
(***************************************************************************)
\* transceive has returned a response and the orchestrator has dealt with it
Handled == resp.kind = "ok" /\ pc # "response"

\* the response passed the checks of its sequence id, op and group
Accepted == resp.kind = "ok" /\ ~WrongSeq(resp) /\ ~WrongTypes(resp)

\* the response carries an integer offset
ReportsOffset == resp.kind = "ok" /\ resp.body.t = "map" /\ resp.body.off.t = "int"

\* the response carries a non-zero integer status
ReportsError ==
    resp.kind = "ok" /\ resp.body.t = "map" /\ resp.body.rc.t = "int" /\ resp.body.rc.v # 0

\* the starting offset of the chunk the response came back for
ChunkStart == resp.to.data_from

(***************************************************************************)
(* C3: upload returns Ok only with the send offset at the end of the       *)
(* image; whenever it ends with the offset anywhere else it has ended in   *)
(* an error (an Err it returned or a panic), never in success.             *)
(***************************************************************************)
C3_NoPartialSuccess ==
    /\ pc = "done" => (off = data_len /\ err = NoError)
    /\ (Terminated /\ off # data_len) => (pc \in {"failed", "panic"} /\ err # NoError)

C3_Witness ==
    /\ pc = "done"
    /\ off = data_len
    /\ data_len = 300
    /\ nsent = 2
    /\ cli.mtu = 512
    /\ resp.to.data_from = 292

(***************************************************************************)
(* C4: once an accepted response without error status that reports an      *)
(* offset V other than the starting offset S of its chunk has been dealt   *)
(* with, the send offset is V, and the next request built carries offset V *)
(* and the image bytes from V on.                                          *)
(***************************************************************************)
C4_ResyncToReported ==
    (Handled /\ Accepted /\ ~ReportsError /\ ReportsOffset
        /\ resp.body.off.v # ChunkStart)
    => /\ off = resp.body.off.v
       /\ pc \in {"send", "await"} =>
            (req.off = resp.body.off.v /\ req.data_from = resp.body.off.v)

\* the same for the offsets V that a usize holds
C4_ResyncInRange ==
    (Handled /\ Accepted /\ ~ReportsError /\ ReportsOffset
        /\ resp.body.off.v # ChunkStart
        /\ resp.body.off.v \in 0 .. (UsizeMod - 1))
    => /\ off = resp.body.off.v
       /\ pc \in {"send", "await"} =>
            (req.off = resp.body.off.v /\ req.data_from = resp.body.off.v)

(***************************************************************************)
(* C5: once an accepted response that reports the starting offset S of its *)
(* chunk has been dealt with, upload has failed with an error, and no      *)
(* request has been written since the response came.                       *)
(***************************************************************************)
C5_StallDetected ==
    (Handled /\ Accepted /\ ReportsOffset /\ resp.body.off.v = ChunkStart)
    => /\ pc = "failed"
       /\ err # NoError
       /\ nsent = resp.n
       /\ off = ChunkStart

C5_Witness ==
    /\ Handled /\ Accepted /\ ReportsOffset
    /\ resp.body.off.v = ChunkStart
    /\ ChunkStart > 0
    /\ resp.body.rc = Integer(0)
    /\ err.msg = "wrong offset received"
    /\ nsent = 2

(***************************************************************************)
(* C6: once a response to the write request (one with the request's        *)
(* sequence id, op write-response, group Image) that carries a non-zero    *)
(* integer status has been dealt with, upload has failed reporting that    *)
(* status, whatever offset the response reports, and no request has been   *)
(* written since; on the first chunk and on later ones.                    *)
(***************************************************************************)
C6_DeviceErrorAborts ==
    (Handled /\ Accepted /\ ReportsError)
    => /\ pc = "failed"
       /\ err = [msg |-> "rc", code |-> resp.body.rc.v]
       /\ nsent = resp.n
       /\ off = ChunkStart

C6_Witness ==
    /\ Handled /\ Accepted
    /\ resp.body.t = "map"
    /\ resp.body.rc = Integer(3)
    /\ resp.body.off = Integer(data_len)
    /\ ChunkStart > 0
    /\ nsent = 2
    /\ err.code = 3

\* the same on the first chunk
C6_WitnessFirstChunk ==
    /\ Handled /\ Accepted
    /\ resp.body.t = "map"
    /\ resp.body.rc = Integer(3)
    /\ ChunkStart = 0
    /\ nsent = 1
    /\ err.code = 3

(***************************************************************************)
(* C7: every pass of the inner loop either hands a frame of at most mtu    *)
(* bytes to transceive, or fails with "MTU too small", or goes round again *)
(* with a strictly smaller attempted chunk length (so that the loop ends   *)
(* after finitely many passes).                                            *)
(***************************************************************************)
\* the attempted chunk length of the pass about to run: try_length as clamped
\* to the rest of the image
Attempted ==
    IF (off + try_length) % UsizeMod > data_len
      THEN (data_len - off) % UsizeMod
      ELSE try_length

C7_ShrinkConverges ==
    [][pc = "build" =>
         \/ pc' = "send" /\ req'.frame_len <= cli.mtu
         \/ pc' = "failed" /\ err'.msg = "MTU too small"
         \/ pc' = "build" /\ try_length' < Attempted]_vars

(***************************************************************************)
(* C11, as stated: of the requests written in one upload exactly one       *)
(* carries the image's total length and digest, the one at offset 0, and   *)
(* a request at another offset carries neither, whatever the device        *)
(* answers, a resynchronization to offset 0 included.                      *)
(***************************************************************************)
\* the requests written that carry the length and the digest
WithMetadata == {i \in 1 .. Len(sent) : sent[i].has_len /\ sent[i].has_sha}

C11_MetadataExactlyOnce ==
    /\ \A i \in 1 .. Len(sent) :
          IF sent[i].off = 0
            THEN sent[i].has_len /\ sent[i].has_sha /\ sent[i].len = data_len
            ELSE ~sent[i].has_len /\ ~sent[i].has_sha
    /\ Len(sent) > 0 => Cardinality(WithMetadata) = 1

\* C11, amended: a request written carries the image's total length and
\* digest if and only if it was built at send offset 0; the first request
\* written is one of these, and so is every request written after the device
\* has resynchronized the offset to 0.
C11_MetadataAtOffsetZero ==
    /\ \A i \in 1 .. Len(sent) :
          IF sent[i].data_from = 0
            THEN sent[i].has_len /\ sent[i].has_sha /\ sent[i].len = data_len
                 /\ sent[i].off = 0
            ELSE ~sent[i].has_len /\ ~sent[i].has_sha /\ sent[i].off # 0
    /\ Len(sent) > 0 => 1 \in WithMetadata

\* the device has sent the upload back to offset 0, and the third request
\* carries the length and the digest as the first did
C11_Witness ==
    /\ Len(sent) = 3
    /\ sent[2].data_from > 0
    /\ ~sent[2].has_len
    /\ sent[3].data_from = 0
    /\ sent[3].has_len /\ sent[3].has_sha
    /\ WithMetadata = {1, 3}

(***************************************************************************)
(* C12, as stated: in every frame upload writes, whatever the MTU, the     *)
(* header's 16-bit length field is the byte length of the payload and the  *)
(* 16-bit length prefix is the byte length of header, payload and checksum *)
(* (8 + payload length + 2).                                               *)
(***************************************************************************)
C12_LengthFieldsExact ==
    \A i \in 1 .. Len(sent) :
       /\ sent[i].hdr_len = sent[i].body_len
       /\ sent[i].total_len = NmpHdrLen + sent[i].body_len + CrcLen

\* what holds of C12: the fields are exact in the frames whose header, payload
\* and checksum together stay under 2^16 bytes
C12_LengthFieldsWithinU16 ==
    \A i \in 1 .. Len(sent) :
       (NmpHdrLen + sent[i].body_len + CrcLen < 65536) =>
          /\ sent[i].hdr_len = sent[i].body_len
          /\ sent[i].total_len = NmpHdrLen + sent[i].body_len + CrcLen

(***************************************************************************)
(* C13: a response is used only if its sequence id is the request's, its   *)
(* op the response op of the command (write-response for upload,           *)
(* read-response for list) and its group Image; a response that fails one  *)
(* of the three makes the command fail with an error, leaves the send      *)
(* offset where it was and is followed by no further request.              *)
(***************************************************************************)
\* transceive has returned a response and the command has dealt with it
Dealt == resp.kind = "ok" /\ pc # "response"

\* the response op the command of the request expects
ExpectedOp == IF resp.to.kind = "list" THEN "ReadRsp" ELSE "WriteRsp"

\* the response has the request's sequence id, the expected op and group Image
ResponseMatches ==
    resp.seq = resp.to.seq /\ resp.op = ExpectedOp /\ resp.group = "Image"

C13_ResponseAcceptance ==
    /\ (Dealt /\ ~ResponseMatches) =>
          /\ pc = "failed"
          /\ err.msg \in {"wrong sequence number", "wrong response types"}
          /\ off = ChunkStart
          /\ nsent = resp.n
    /\ (Dealt /\ (off # ChunkStart \/ err.msg \in {"rc", "wrong offset received"}
                   \/ pc \in {"done", "outer", "build", "send", "await"})) =>
          ResponseMatches

\* upload has refused the answer to its second chunk for its group
C13_Witness ==
    /\ Dealt
    /\ resp.to.kind = "req"
    /\ resp.seq = resp.to.seq /\ resp.op = "WriteRsp" /\ resp.group = "Default"
    /\ resp.body.t = "map" /\ resp.body.off = Integer(data_len)
    /\ ChunkStart > 0
    /\ err.msg = "wrong response types"
    /\ nsent = 2

\* list has refused a write-response
C13_WitnessList ==
    /\ Dealt
    /\ resp.to.kind = "list"
    /\ resp.seq = resp.to.seq /\ resp.op = "WriteRsp" /\ resp.group = "Image"
    /\ err.msg = "wrong response types"
    /\ nsent = 1

(***************************************************************************)
(* C14: every frame built within one iteration of the outer loop, shrink   *)
(* retries included, carries the iteration's sequence id; the id is        *)
(* allocated once at the head of each iteration and nowhere else, so the   *)
(* frames written for consecutive chunks carry ids that differ by 1        *)
(* modulo 256, and a pass of the inner loop allocates nothing.             *)
(***************************************************************************)
\* the frame handed to transceive carries the sequence id of the iteration
BuiltCarriesCurrentId ==
    (req.kind = "req" /\ pc \in {"send", "await", "response"}) => req.seq = seq_id

\* the frames written carry consecutive ids
SentIdsConsecutive ==
    \A i \in 1 .. (Len(sent) - 1) : sent[i + 1].seq = (sent[i].seq + 1) % U8Mod

C14_SeqIdLifetime ==
    /\ [](BuiltCarriesCurrentId /\ SentIdsConsecutive)
    /\ [][/\ (seq_id' # seq_id \/ COUNTER' # COUNTER) => (pc = "outer" /\ pc' = "build")
          /\ pc = "build" => (seq_id' = seq_id /\ COUNTER' = COUNTER)
          /\ (pc = "build" /\ req' # req) => req'.seq = seq_id
          /\ pc = "outer" =>
                /\ COUNTER' = (seq_id' + 1) % U8Mod
                /\ lazy_done => seq_id' = COUNTER
                /\ nsent > 0 => seq_id' = (seq_id + 1) % U8Mod]_vars

\* three chunks under the ids 254, 255 and 0, the third after a shrink retry
C14_Witness ==
    /\ Len(sent) = 3
    /\ sent[1].seq = 254 /\ sent[2].seq = 255 /\ sent[3].seq = 0
    /\ data_len = 70000
    /\ cli.mtu = 512
    /\ sent[3].data_len < cli.mtu
    /\ sent[3].data_len < data_len - sent[3].data_from

(***************************************************************************)
(* C15, as stated: a pass of the inner loop that builds a frame longer     *)
(* than the MTU, by overflow bytes, fails with "MTU too small" and writes  *)
(* nothing if overflow is greater than the attempted chunk length;         *)
(* otherwise it reduces the attempted chunk length by                      *)
(* floor(overflow * 3 / 4) + 3 to a length that is not negative, and goes  *)
(* round again at the same offset under the same sequence id.              *)
(***************************************************************************)
\* the step is a pass of the inner loop that built a frame longer than the MTU
BuiltTooLong ==
    /\ pc = "build"
    /\ req'.kind = "req"
    /\ req'.data_from = off
    /\ req'.data_len = Attempted
    /\ req'.frame_len > cli.mtu

C15_ShrinkStep ==
    [][BuiltTooLong =>
         LET overflow == req'.frame_len - cli.mtu IN
         IF overflow > Attempted
           THEN pc' = "failed" /\ err'.msg = "MTU too small" /\ nsent' = nsent
           ELSE /\ pc' = "build"
                /\ try_length' = Attempted - ((overflow * 3) \div 4 + 3)
                /\ try_length' >= 0
                /\ off' = off
                /\ seq_id' = seq_id]_vars

(***************************************************************************)
(* C16: once an accepted response with status 0 or without a status, and   *)
(* without an offset or with an offset that is not an integer, has been    *)
(* dealt with, the send offset is the chunk's starting offset and upload   *)
(* has failed as a stall, with no request written since: it has neither    *)
(* succeeded nor advanced by the chunk's length.                           *)
(***************************************************************************)
\* the body holds no integer offset: it is not a map, or its "off" is missing
\* or of another type
NoIntegerOffset ==
    resp.kind = "ok" /\ (resp.body.t = "map" => resp.body.off \in {Absent, NotInteger})

\* the body holds status 0 or no status
StatusZeroOrNone ==
    resp.kind = "ok" /\ (resp.body.t = "map" => resp.body.rc \in {Absent, Integer(0)})

C16_MissingOffsetStalls ==
    (Dealt /\ ResponseMatches /\ StatusZeroOrNone /\ NoIntegerOffset) =>
        /\ pc = "failed"
        /\ err.msg = "wrong offset received"
        /\ off = ChunkStart
        /\ nsent = resp.n

\* the answer to the second chunk had status 0 and no offset
C16_Witness ==
    /\ Dealt /\ ResponseMatches
    /\ resp.body.t = "map"
    /\ resp.body.rc = Integer(0)
    /\ resp.body.off = Absent
    /\ ChunkStart > 0
    /\ resp.to.data_len > 0
    /\ err.msg = "wrong offset received"
    /\ nsent = 2

\* the same for an offset that is not an integer, on the first chunk
C16_WitnessNotInteger ==
    /\ Dealt /\ ResponseMatches
    /\ resp.body.t = "map"
    /\ resp.body.rc = Absent
    /\ resp.body.off = NotInteger
    /\ ChunkStart = 0
    /\ err.msg = "wrong offset received"

(***************************************************************************)
(* C18: every frame upload hands to transceive, markers and newlines       *)
(* counted, is at most the configured MTU long; no longer frame is         *)
(* written to the port.                                                    *)
(***************************************************************************)
C18_SentWithinMtu ==
    /\ \A i \in 1 .. Len(sent) : sent[i].frame_len <= cli.mtu
    /\ pc \in {"send", "await"} => req.frame_len <= cli.mtu

\* a frame has been written for a chunk shrunk to fit, and another behind it
C18_Witness ==
    /\ cli.mtu = 512
    /\ data_len = 300
    /\ Len(sent) = 2
    /\ sent[1].data_len < data_len
    /\ sent[1].data_len > 0
    /\ sent[1].frame_len <= cli.mtu
    /\ sent[1].frame_len > cli.mtu - 16

(***************************************************************************)
(* C19, as stated: in every state of upload, whatever offsets the device   *)
(* reports, the send offset lies between 0 and the image's length, every   *)
(* chunk built is a slice of the image that ends at or before its end,     *)
(* and the slice is never out of range (so that the percentage reported    *)
(* is at most 100).                                                        *)
(***************************************************************************)
C19_OffsetBounds ==
    /\ 0 <= off /\ off <= data_len
    /\ req.kind = "req" => req.data_from + req.data_len <= data_len
    /\ ~(pc = "panic" /\ err.msg = "slice index out of range")

(***************************************************************************)
(* upload with a device that answers every request as the protocol asks:   *)
(* upload is one thread that runs on until it returns, and every request   *)
(* written gets its response.                                              *)
(***************************************************************************)
\* the offsets a cooperating device reports: beyond the start of the chunk
\* it was sent, by one byte, by the whole chunk or up to the end of the image
CooperativeOffsets ==
    {o \in {off_start + 1, off_start + req.data_len, data_len} :
        off_start < o /\ o <= data_len}

\* the matching responses of status 0 with such an offset
CooperativeResponses ==
    [kind : {"ok"},
     seq : {req.seq},
     op : {"WriteRsp"},
     group : {"Image"},
     body : [t : {"map"}, rc : {Integer(0)},
             off : {Integer(o) : o \in CooperativeOffsets}],
     to : {req},
     n : {nsent}]

\* transceive writes the request without an error of the port
Transmit == SendRequest /\ pc' = "await"

\* transceive reads the response of a cooperating device
CooperativeRespond ==
    /\ pc = "await"
    /\ resp' \in CooperativeResponses
    /\ pc' = "response"
    /\ UNCHANGED <<seq_vars, codec_vars>>
    /\ UNCHANGED <<cli, build, data_len, off, off_start, try_length, seq_id, err, req, nsent, sent>>

LiveNext == OuterLoop \/ Build \/ Transmit \/ CooperativeRespond \/ HandleResponse

SpecUploadLive == UploadInit /\ [][LiveNext]_vars /\ WF_vars(LiveNext)

\* the first request of an upload that carries one byte of the image
OneByteReq ==
    [image_num |-> cli.slot, off |-> 0,
     has_len |-> TRUE, len |-> AsU32(data_len), has_sha |-> TRUE,
     data_len |-> 1]

\* the MTU takes a frame that carries one data byte, even with the length and
\* the digest of the first request
CarriesOneByte == EncodedLen(cli.linelength, CborBodyLen(OneByteReq)) <= cli.mtu

\* the percentage `100 * off / data.len()` is within usize for every offset
\* of the image (as it is for every image a 64-bit usize can hold)
PercentInRange == 100 * data_len < UsizeMod

\* the uploads C20 is about: a non-empty image, an MTU that carries a byte
Uploadable == data_len > 0 /\ CarriesOneByte /\ PercentInRange

\* the model follows an upload for MaxRequests requests
OutOfRequests == pc = "send" /\ nsent = MaxRequests

(***************************************************************************)
(* C20, as stated: for a non-empty image and an MTU that takes a frame     *)
(* with at least one data byte, an upload whose every request is answered  *)
(* with a matching response of status 0 and an offset beyond the chunk's   *)
(* start and at most the image's length eventually returns success (or is  *)
(* still sending when the requests followed are used up).                  *)
(***************************************************************************)
C20_UploadCompletes ==
    Uploadable => <>(pc = "done" \/ OutOfRequests)

\* what does hold of such an upload: it returns success, or it stops in the
\* inner loop before a request is written, with "MTU too small", with a
\* panic of the shrink step, or shrinking for ever
C20_CompletesOrStopsInShrink ==
    Uploadable =>
        <>(\/ pc = "done"
           \/ OutOfRequests
           \/ pc = "failed" /\ err.msg = "MTU too small"
           \/ pc = "panic" /\ err.msg = "attempt to subtract with overflow"
           \/ [](pc = "build" /\ req.kind = "req" /\ req.frame_len > cli.mtu))

\* the other half of C20: a reported offset before the chunk's start is taken
\* as it is: the upload goes on from there, the response raises no error and
\* no count of it is kept, so an offset can come round again
C20_RegressionAccepted ==
    (/\ Handled /\ Accepted /\ ~ReportsError /\ ReportsOffset
     /\ 0 < resp.body.off.v /\ resp.body.off.v < ChunkStart)
        => /\ off = resp.body.off.v
           /\ pc # "done"
           /\ pc = "failed" => err.msg \in {"MTU too small", "transceive"}

\* an upload back at an offset it has sent from before, after a regression
C20_WitnessRegression ==
    /\ nsent = 3
    /\ pc = "outer"
    /\ sent[3].data_from < sent[2].data_from
    /\ off = sent[2].data_from
    /\ off < data_len

(***************************************************************************)
(* The frame codec: bytes are the integers 0 .. 255.                       *)
(***************************************************************************)
\* exclusive or of two naturals, bit by bit
RECURSIVE BitXor(_, _)
BitXor(a, b) ==
    IF a = 0 THEN b
    ELSE IF b = 0 THEN a
    ELSE (((a % 2) + (b % 2)) % 2) + 2 * BitXor(a \div 2, b \div 2)

\* write_u16::<BigEndian>
BE16(n) == <<(n \div 256) % 256, n % 256>>

\* BigEndian::read_u16 of the first two bytes
ReadU16(b) == b[1] * 256 + b[2]

\* x with the bit of weight p (a power of 2) flipped
Toggle(x, p) == IF (x \div p) % 2 = 1 THEN x - p ELSE x + p

\* x xor the polynomial 0x1021 = 2^12 + 2^5 + 2^0
XorPoly(x) == Toggle(Toggle(Toggle(x, 4096), 32), 1)

\* k shifts of the CRC register, the polynomial folded in whenever a 1 falls out
\* (the register stays below 2^16; the test makes TLC compute it before it goes on)
RECURSIVE CrcShift(_, _)
CrcShift(x, k) ==
    IF k = 0 THEN x
    ELSE LET y == IF x >= 32768 THEN XorPoly((x * 2) % 65536) ELSE x * 2 IN
         IF y < 65536 THEN CrcShift(y, k - 1) ELSE 0

\* the next byte is folded into the high byte of the register
RECURSIVE CrcFold(_, _, _)
CrcFold(bytes, i, crc) ==
    IF i > Len(bytes) THEN crc
    ELSE LET x == BitXor(crc \div 256, bytes[i]) * 256 + (crc % 256)
             next == CrcShift(x, 8)
         IN IF next < 65536 THEN CrcFold(bytes, i + 1, next) ELSE 0

\* a CRC that starts after the first byte (mutant of Crc16Xmodem)
Crc16Xmodem_SkipFirst(bytes) == CrcFold(bytes, 2, 0)

\* State::<XMODEM>::calculate: CRC16, polynomial 0x1021, initial value 0
Crc16Xmodem(bytes) == CrcFold(bytes, 1, 0)

\* the character of a 6-bit value in the standard alphabet: A-Z a-z 0-9 + /
B64Char(v) ==
    IF v < 26 THEN 65 + v
    ELSE IF v < 52 THEN 97 + (v - 26)
    ELSE IF v < 62 THEN 48 + (v - 52)
    ELSE IF v = 62 THEN 43
    ELSE 47

\* the padding character '='
B64Pad == 61

\* the 6-bit value of a character, -1 for a byte outside the alphabet
B64Value(c) ==
    IF c >= 65 /\ c <= 90 THEN c - 65
    ELSE IF c >= 97 /\ c <= 122 THEN c - 97 + 26
    ELSE IF c >= 48 /\ c <= 57 THEN c - 48 + 52
    ELSE IF c = 43 THEN 62
    ELSE IF c = 47 THEN 63
    ELSE -1

\* general_purpose::STANDARD.encode
RECURSIVE Base64Encode(_)
Base64Encode(b) ==
    IF Len(b) = 0 THEN <<>>
    ELSE IF Len(b) = 1
      THEN <<B64Char(b[1] \div 4), B64Char((b[1] % 4) * 16), B64Pad, B64Pad>>
    ELSE IF Len(b) = 2
      THEN <<B64Char(b[1] \div 4), B64Char((b[1] % 4) * 16 + b[2] \div 16),
             B64Char((b[2] % 16) * 4), B64Pad>>
    ELSE <<B64Char(b[1] \div 4), B64Char((b[1] % 4) * 16 + b[2] \div 16),
           B64Char((b[2] % 16) * 4 + b[3] \div 64), B64Char(b[3] % 64)>>
         \o Base64Encode(SubSeq(b, 4, Len(b)))

DecodeError == [ok |-> FALSE, bytes |-> <<>>]

\* the bytes of the quads of c from the i-th character on; the last quad may
\* end in one or two pads, over no left-over bits
RECURSIVE DecodeQuads(_, _)
DecodeQuads(c, i) ==
    IF i > Len(c) THEN [ok |-> TRUE, bytes |-> <<>>]
    ELSE LET v1 == B64Value(c[i])
             v2 == B64Value(c[i + 1])
             v3 == B64Value(c[i + 2])
             v4 == B64Value(c[i + 3])
             last == (i + 3 = Len(c))
         IN
         IF v1 < 0 \/ v2 < 0 THEN DecodeError
         ELSE IF last /\ c[i + 2] = B64Pad /\ c[i + 3] = B64Pad
           THEN IF v2 % 16 = 0
                  THEN [ok |-> TRUE, bytes |-> <<v1 * 4 + v2 \div 16>>]
                  ELSE DecodeError
         ELSE IF v3 < 0 THEN DecodeError
         ELSE IF last /\ c[i + 3] = B64Pad
           THEN IF v3 % 4 = 0
                  THEN [ok |-> TRUE,
                        bytes |-> <<v1 * 4 + v2 \div 16, (v2 % 16) * 16 + v3 \div 4>>]
                  ELSE DecodeError
         ELSE IF v4 < 0 THEN DecodeError
         ELSE LET rest == DecodeQuads(c, i + 4) IN
              IF rest.ok
                THEN [ok |-> TRUE,
                      bytes |-> <<v1 * 4 + v2 \div 16, (v2 % 16) * 16 + v3 \div 4,
                                  (v3 % 4) * 64 + v4>> \o rest.bytes]
                ELSE DecodeError

\* general_purpose::STANDARD.decode: canonical padding is required
Base64Decode(c) ==
    IF Len(c) % 4 # 0 THEN DecodeError ELSE DecodeQuads(c, 1)

\* NmpHdr::serialize: op, flags, len (big-endian), group (big-endian), seq, id
SerializeHdr(h) ==
    <<h.op, h.flags, (h.len \div 256) % 256, h.len % 256,
      (h.group \div 256) % 256, h.group % 256, h.seq, h.id>>

\* NmpHdr::deserialize of the first 8 bytes
DeserializeHdr(d) ==
    [op |-> d[1], flags |-> d[2], len |-> d[3] * 256 + d[4],
     group |-> d[5] * 256 + d[6], seq |-> d[7], id |-> d[8]]

\* NmpOp: Read, ReadRsp, Write, WriteRsp
NmpOps == 0 .. 3

\* no item: the bytes end early, or the initial byte is not one of an item
CborFail == [end |-> 0]

\* the CBOR item that starts at b[i]: the index after it and its Value, or
\* CborFail.  Arguments of one byte at most and definite lengths: the initial
\* bytes with longer arguments are not among the bytes drawn.  A map keeps its
\* entries in the order read, a tagged item its tag.
RECURSIVE CborItem(_, _)
RECURSIVE CborItems(_, _, _)
CborItem(b, i) ==
    IF i > Len(b) THEN CborFail
    ELSE LET mt == b[i] \div 32
             ai == b[i] % 32
             hdr == IF ai < 24 THEN 1 ELSE 2
             arg == IF ai < 24 THEN ai
                    ELSE IF ai = 24 /\ i + 1 <= Len(b) THEN b[i + 1]
                    ELSE -1
             from == i + hdr
         IN
         IF arg < 0 THEN CborFail
         ELSE IF mt = 0 THEN [end |-> from, value |-> [t |-> "Integer", int |-> arg]]
         ELSE IF mt = 1 THEN [end |-> from, value |-> [t |-> "Integer", int |-> -1 - arg]]
         ELSE IF mt = 2
           THEN IF from + arg - 1 <= Len(b)
                  THEN [end |-> from + arg,
                        value |-> [t |-> "Bytes", bytes |-> SubSeq(b, from, from + arg - 1)]]
                  ELSE CborFail
         ELSE IF mt = 3
           THEN IF /\ from + arg - 1 <= Len(b)
                   /\ \A k \in from .. (from + arg - 1) : b[k] < 128
                  THEN [end |-> from + arg,
                        value |-> [t |-> "Text", text |-> SubSeq(b, from, from + arg - 1)]]
                  ELSE CborFail
         ELSE IF mt = 4
           THEN LET r == CborItems(b, from, arg) IN
                IF r.end = 0 THEN CborFail
                ELSE [end |-> r.end, value |-> [t |-> "Array", items |-> r.values]]
         ELSE IF mt = 5
           THEN LET r == CborItems(b, from, 2 * arg) IN
                IF r.end = 0 THEN CborFail
                ELSE [end |-> r.end, value |-> [t |-> "Map", entries |-> r.values]]
         ELSE IF mt = 6
           THEN LET r == CborItem(b, from) IN
                IF r.end = 0 THEN CborFail
                ELSE [end |-> r.end, value |-> [t |-> "Tag", tag |-> arg, inner |-> r.value]]
         ELSE IF ai \in {20, 21} THEN [end |-> i + 1, value |-> [t |-> "Bool", bool |-> ai = 21]]
         ELSE IF ai \in {22, 23} THEN [end |-> i + 1, value |-> [t |-> "Null"]]
         ELSE CborFail

\* n items one after the other from b[i] on
CborItems(b, i, n) ==
    IF n = 0 THEN [end |-> i, values |-> <<>>]
    ELSE LET r == CborItem(b, i) IN
         IF r.end = 0 THEN CborFail
         ELSE LET rest == CborItems(b, r.end, n - 1) IN
              IF rest.end = 0 THEN CborFail
              ELSE [end |-> rest.end, values |-> <<r.value>> \o rest.values]

\* serde_cbor::from_reader: one well-formed item and nothing after it
CborValue(b) ==
    LET r == CborItem(b, 1) IN
    IF r.end = Len(b) + 1 THEN [ok |-> TRUE, value |-> r.value] ELSE [ok |-> FALSE]

(***************************************************************************)
(* encode_request                                                          *)
(***************************************************************************)
\* the first line's marker, the other lines' marker, the end of a line
StartMarker == <<6, 9>>

ContMarker == <<4, 20>>

Newline == 10

\* `cli.linelength - 4` in a build without overflow checks: it wraps below 4
ContentWidth(linelength) == (linelength - 4) % UsizeMod

\* the line loop: `data` from `written` on, for a content width above 0
RECURSIVE EncodeLines(_, _, _)
EncodeLines(base64_data, written, linelength) ==
    LET totlen == Len(base64_data) IN
    IF written < totlen
      THEN LET write_len == Min(ContentWidth(linelength), totlen - written) IN
           (IF written = 0 THEN StartMarker ELSE ContMarker)
           \o SubSeq(base64_data, written + 1, written + write_len)
           \o <<Newline>>
           \o EncodeLines(base64_data, written + write_len, linelength)
      ELSE <<>>

\* a header that keeps the sequence id new_req gave it (mutant of RequestHeader)
RequestHeader_NoSeq(op, group, id, body, seq) ==
    [op |-> op, flags |-> 0, len |-> AsU16(Len(body)), group |-> group,
     seq |-> 0, id |-> id]

\* NmpHdr::new_req(op, group, id) with seq and len set
RequestHeader(op, group, id, body, seq) ==
    [op |-> op, flags |-> 0, len |-> AsU16(Len(body)), group |-> group,
     seq |-> seq, id |-> id]

\* the header and the body, the CRC of both after them and the length of all
\* three before them
Serialized(request_header, body) ==
    LET serialized == SerializeHdr(request_header) \o body
        with_crc == serialized \o BE16(Crc16Xmodem(serialized))
    IN BE16(AsU16(Len(with_crc))) \o with_crc

\* encode_request: (data, request_header).  The base64 text is never empty, so
\* the line loop is entered: with a line length below 4 the subtraction panics
\* in a build with overflow checks, and with a content width of 0 every pass of
\* the loop writes a marker and a newline and leaves `written` where it was.
EncodeRequest(linelength, overflow_checks, op, group, id, body, seq) ==
    LET request_header == RequestHeader(op, group, id, body, seq)
        base64_data == Base64Encode(Serialized(request_header, body))
    IN IF linelength < 4 /\ overflow_checks
         THEN [kind |-> "panic", msg |-> "attempt to subtract with overflow"]
       ELSE IF ContentWidth(linelength) = 0
         THEN [kind |-> "endless"]
       ELSE [kind |-> "encoded",
             data |-> EncodeLines(base64_data, 0, linelength),
             request_header |-> request_header]

(***************************************************************************)
(* transceive, from the line read to the value returned                    *)
(***************************************************************************)
\* `if read_checksum != calculated_checksum`
WrongChecksum(read_checksum, calculated_checksum) ==
    read_checksum # calculated_checksum

\* `if len != decoded.len() - 2`
WrongLength(len, decoded_len) == len # decoded_len - 2

DecErr(msg) == [kind |-> "err", msg |-> msg]

DecPanic(msg) == [kind |-> "panic", msg |-> msg]

\* the decode half of transceive on the bytes of the line read
Decode(line) ==
    LET b64 == Base64Decode(line)
        decoded == b64.bytes
        n == Len(decoded)
    IN
    IF ~b64.ok THEN DecErr("base64")
    ELSE IF n < 2 THEN DecPanic("read_u16: slice too short")
    ELSE IF WrongLength(ReadU16(decoded), n) THEN DecErr("wrong chunk length")
    ELSE IF n - 2 < 2 THEN DecPanic("slice index starts after its end")
    ELSE LET data == SubSeq(decoded, 3, n - 2)
             read_checksum == ReadU16(SubSeq(decoded, n - 1, n))
             calculated_checksum == Crc16Xmodem(data)
         IN
         IF WrongChecksum(read_checksum, calculated_checksum) THEN DecErr("wrong checksum")
         ELSE IF Len(data) < NmpHdrLen \/ data[1] \notin NmpOps
           THEN DecPanic("NmpHdr::deserialize(..).unwrap()")
         ELSE LET body == CborValue(SubSeq(data, NmpHdrLen + 1, Len(data))) IN
              IF ~body.ok THEN DecErr("cbor")
              ELSE [kind |-> "ok",
                    response_header |-> DeserializeHdr(data),
                    body |-> body.value]

(***************************************************************************)
(* One exchange through the codec: a frame is encoded, and a line comes    *)
(* back: the frame itself, the frame with one bit flipped or with another  *)
(* length prefix, or a line of the device's own.                           *)
(***************************************************************************)
\* the longest body encoded
MaxBodyLen == 2

\* the longest frame a device line decodes to
MaxDeviceFrame == 3

\* the bytes bodies are made of: the integer 0, the head of an integer with
\* its argument in the next byte, the head of a byte string of one byte, a
\* break
BodyBytes == {0, 24, 65, 255}

\* the sequences of at most n elements of S
RECURSIVE SeqsUpTo(_, _)
SeqsUpTo(S, n) ==
    IF n = 0 THEN {<<>>}
    ELSE LET shorter == SeqsUpTo(S, n - 1) IN
         shorter \cup {Append(q, x) : q \in {r \in shorter : Len(r) = n - 1}, x \in S}

Bodies == SeqsUpTo(BodyBytes, MaxBodyLen)

\* the frames a device answers with on its own, and lines that are not base64
DeviceFrameBytes == {0, 1, 2}

DeviceLines ==
    {Base64Encode(f) : f \in SeqsUpTo(DeviceFrameBytes, MaxDeviceFrame)}
    \cup {<<33, 65, 65, 65>>, <<65>>, <<65, 66, 61, 61>>}

\* what the transport leaves of the lines of a frame: the markers and the
\* newlines go, the base64 text stays
StripFraming(data) ==
    SelectSeq(data, LAMBDA c : c \notin {6, 9, 4, 20, Newline})

\* the bytes of the frame under the base64 text of enc_out
Frame == Base64Decode(StripFraming(enc_out.data)).bytes

\* byte i of f with bit k flipped
FlipBitAt(f, i, k) ==
    [f EXCEPT ![i] = IF (f[i] \div (2 ^ k)) % 2 = 1 THEN f[i] - 2 ^ k ELSE f[i] + 2 ^ k]

\* the arguments of encode_request, and the build it runs in; the narrow lines
\* with one header and the shortest bodies
EncodeArgs ==
    [kind : {"args"},
     linelength : {12, 128},
     overflow_checks : {FALSE},
     op : {0, 2},
     group : {0, 1},
     id : {0, 1},
     seq : {0, 255},
     body : Bodies]
    \cup [kind : {"args"},
          linelength : {3, 4, 5},
          overflow_checks : BOOLEAN,
          op : {2},
          group : {1},
          id : {1},
          seq : {255},
          body : {<<>>, <<0>>}]

CodecInit ==
    /\ COUNTER = 0
    /\ lazy_done = FALSE
    /\ rng_u8 = 0
    /\ caller_pc = [t \in Callers |-> "idle"]
    /\ ids = <<>>
    /\ UploadIdle
    /\ codec_pc = "start"
    /\ enc_in \in EncodeArgs
    /\ enc_out = [kind |-> "none"]
    /\ tamper = "none"
    /\ result = <<>>
    /\ dec_out = [kind |-> "none"]

Encode ==
    /\ codec_pc = "start"
    /\ enc_out' = EncodeRequest(enc_in.linelength, enc_in.overflow_checks, enc_in.op,
                                enc_in.group, enc_in.id, enc_in.body, enc_in.seq)
    /\ codec_pc' = IF enc_out'.kind = "encoded" THEN "encoded" ELSE "stopped"
    /\ UNCHANGED <<enc_in, tamper, result, dec_out>>
    /\ UNCHANGED <<seq_vars, up_vars>>

\* the frame comes back as it was sent
Loopback ==
    /\ codec_pc = "encoded"
    /\ result' = StripFraming(enc_out.data)
    /\ tamper' = "none"
    /\ codec_pc' = "read"
    /\ UNCHANGED <<enc_in, enc_out, dec_out>>
    /\ UNCHANGED <<seq_vars, up_vars>>

\* the frame comes back with one bit of its header or payload flipped
FlipBit ==
    /\ codec_pc = "encoded"
    /\ LET f == Frame IN
       \E i \in (LenPrefixLen + 1) .. (Len(f) - CrcLen), k \in 0 .. 7 :
          result' = Base64Encode(FlipBitAt(f, i, k))
    /\ tamper' = "flip"
    /\ codec_pc' = "read"
    /\ UNCHANGED <<enc_in, enc_out, dec_out>>
    /\ UNCHANGED <<seq_vars, up_vars>>

\* the frame comes back with another length prefix
AlterPrefix ==
    /\ codec_pc = "encoded"
    /\ LET f == Frame IN
       \E v \in {0, Len(f) - 3, Len(f) - 1, Len(f), 65535} :
          /\ v # Len(f) - LenPrefixLen
          /\ result' = Base64Encode(BE16(v) \o SubSeq(f, 3, Len(f)))
    /\ tamper' = "prefix"
    /\ codec_pc' = "read"
    /\ UNCHANGED <<enc_in, enc_out, dec_out>>
    /\ UNCHANGED <<seq_vars, up_vars>>

\* a line of the device's own comes back
DeviceLine ==
    /\ codec_pc = "encoded"
    /\ result' \in DeviceLines
    /\ tamper' = "device"
    /\ codec_pc' = "read"
    /\ UNCHANGED <<enc_in, enc_out, dec_out>>
    /\ UNCHANGED <<seq_vars, up_vars>>

DecodeLine ==
    /\ codec_pc = "read"
    /\ dec_out' = Decode(result)
    /\ codec_pc' = "decoded"
    /\ UNCHANGED <<enc_in, enc_out, tamper, result>>
    /\ UNCHANGED <<seq_vars, up_vars>>

CodecNext == Encode \/ Loopback \/ FlipBit \/ AlterPrefix \/ DeviceLine \/ DecodeLine

SpecCodec == CodecInit /\ [][CodecNext]_vars

(***************************************************************************)
(* The codec's claims                                                      *)
(***************************************************************************)
\* the line read has been decoded
Decoded == codec_pc = "decoded"

\* the bytes under the base64 text of the line read
ReceivedFrame == Base64Decode(result).bytes

\* the header fields encode_request was given, with the payload's length
GivenHeader ==
    [op |-> enc_in.op, flags |-> 0, len |-> Len(enc_in.body), group |-> enc_in.group,
     seq |-> enc_in.seq, id |-> enc_in.id]

\* the payload given is the encoding of one data item
PayloadIsOneItem == CborItem(enc_in.body, 1).end = Len(enc_in.body) + 1

\* the decode of the frame sent gives back the header fields and the payload
RoundTrip ==
    /\ dec_out.kind = "ok"
    /\ dec_out.response_header = GivenHeader
    /\ dec_out.response_header = enc_out.request_header
    /\ dec_out.body = CborItem(enc_in.body, 1).value

\* C8 as stated: for any payload byte buffer and any valid header fields,
\* encoding and then decoding the encoded bytes, markers and newlines stripped,
\* reproduces the header fields, length and sequence id included, and the
\* payload.
C8_RoundTripAnyPayload == (Decoded /\ tamper = "none") => RoundTrip

\* C8, amended: for any payload that is the encoding of exactly one data item
\* and any valid header fields, encoding and then decoding the encoded bytes,
\* markers and newlines stripped, reproduces the header fields, length and
\* sequence id included, and the payload's value; any other payload makes the
\* decode fail on the payload encoding.
C8_RoundTripOneItem ==
    (Decoded /\ tamper = "none") =>
        IF PayloadIsOneItem THEN RoundTrip ELSE dec_out = DecErr("cbor")

\* a byte string under sequence id 255 has gone through two lines and back
C8_Witness ==
    /\ Decoded
    /\ tamper = "none"
    /\ enc_in.body = <<65, 255>>
    /\ enc_in.seq = 255
    /\ enc_in.linelength = 12
    /\ dec_out.kind = "ok"
    /\ dec_out.body = [t |-> "Bytes", bytes |-> <<255>>]

\* the length prefix of the frame received is not the number of bytes after it;
\* a frame too short to hold a prefix has none that is
PrefixMismatch ==
    \/ Len(ReceivedFrame) < LenPrefixLen
    \/ ReadU16(ReceivedFrame) # Len(ReceivedFrame) - LenPrefixLen

\* C9 as stated: for every response line that is base64, if the 2-byte length
\* prefix of the decoded frame differs from the number of decoded bytes after
\* it, transceive returns the length-mismatch error, not a header and payload
\* and not a crash, frames shorter than prefix plus checksum included.
C9_LengthMismatchFails ==
    (Decoded /\ Base64Decode(result).ok /\ PrefixMismatch) =>
        dec_out = DecErr("wrong chunk length")

\* what holds of C9: a frame that holds a whole prefix, and a wrong one, is
\* refused with the length-mismatch error
C9_WholePrefixMismatchFails ==
    (/\ Decoded
     /\ Base64Decode(result).ok
     /\ Len(ReceivedFrame) >= LenPrefixLen
     /\ PrefixMismatch) =>
        dec_out = DecErr("wrong chunk length")

\* the trailing checksum of the frame received is the CRC of the bytes between
\* the prefix and the checksum
ChecksumMatches ==
    LET f == ReceivedFrame
        n == Len(f)
    IN /\ n >= LenPrefixLen + CrcLen
       /\ BE16(Crc16Xmodem(SubSeq(f, LenPrefixLen + 1, n - CrcLen))) = SubSeq(f, n - 1, n)

\* C10: a frame with one bit of its header or payload flipped, prefix and
\* checksum as they were, fails the decode with the checksum-mismatch error; and
\* a header and payload are returned only when the trailing checksum equals the
\* CRC16/XMODEM of the bytes between the prefix and the checksum.
C10_ChecksumSensitive ==
    /\ (Decoded /\ tamper = "flip") => dec_out = DecErr("wrong checksum")
    /\ (Decoded /\ dec_out.kind = "ok") => ChecksumMatches

\* a frame with a payload has come back with a flipped bit and been refused
C10_Witness ==
    /\ Decoded
    /\ tamper = "flip"
    /\ Len(enc_in.body) = MaxBodyLen
    /\ ReceivedFrame # Frame
    /\ dec_out = DecErr("wrong checksum")

\* the base64 text encode_request splits into lines
Base64Text ==
    Base64Encode(Serialized(RequestHeader(enc_in.op, enc_in.group, enc_in.id,
                                          enc_in.body, enc_in.seq),
                            enc_in.body))

\* data is text in lines of at most w content bytes and at least one: line j
\* (from 0) takes 2 + w + 1 bytes but for the last, begins with the start marker
\* if it is the first and with the continuation marker if not, carries the
\* next w bytes of text, or the rest of it, and ends with a newline
WellChunked(data, text, w) ==
    /\ w >= 1
    /\ LET L == Len(text)
           n == (L + w - 1) \div w
       IN /\ Len(data) = L + 3 * n
          /\ \A j \in 0 .. (n - 1) :
                LET at == j * (w + 3)
                    content == Min(w, L - j * w)
                IN /\ content >= 1
                   /\ SubSeq(data, at + 1, at + 2) = (IF j = 0 THEN <<6, 9>> ELSE <<4, 20>>)
                   /\ SubSeq(data, at + 3, at + 2 + content)
                        = SubSeq(text, j * w + 1, j * w + content)
                   /\ data[at + 3 + content] = 10

\* C17 as stated: for every base64 text and every configured line width
\* encode_request ends, and its output is the text in lines: the first behind
\* the start marker {6, 9}, the others behind the continuation marker {4, 20},
\* each ended by the newline 0x0A, each of at most (line width - 4) content
\* bytes and at least one, the content bytes in order being the text.
C17_LineChunking ==
    codec_pc # "start" =>
        /\ enc_out.kind = "encoded"
        /\ WellChunked(enc_out.data, Base64Text, enc_in.linelength - 4)

\* what holds of C17: the same for the line widths above 4
C17_LineChunkingAbove4 ==
    (codec_pc # "start" /\ enc_in.linelength > 4) =>
        /\ enc_out.kind = "encoded"
        /\ WellChunked(enc_out.data, Base64Text, enc_in.linelength - 4)

=============================================================================
